---- MODULE Spec2Model ----
(***************************************************************************)
(* Model of src/src/App.tsx: the Advanced Nostr Search page.               *)
(*                                                                         *)
(* The state is the component's React state (isSearching, npub,            *)
(* includeNotesFromFollowedUsers, query, fromDate, toDate, events,         *)
(* currentDataLength), the page address's query string                     *)
(* (window.location.search), the last message put out (a toast or a       *)
(* console line), and the relay sessions started by handleSubmit, each    *)
(* with the values its callbacks closed over.  Text is a sequence of tokens: a run of unreserved characters is  *)
(* one token ("npub1a"), every other character is a token of its own       *)
(* (" ", "&", "="), and in a serialized query string an escape ("%26") is  *)
(* one token.                                                              *)
(*                                                                         *)
(* A step is one run of a handler or of a callback between two awaits: the *)
(* page is single-threaded, and the state updates of one run are batched   *)
(* into one render.  What the relay and the user do is the model's         *)
(* nondeterminism: which field changes to what, whether and when a relay   *)
(* emits "connect" or "error", what relay.get and relay.list resolve with. *)
(*                                                                         *)
(* Three specifications share the actions.  Spec is the searches of a      *)
(* page; SpecForm is the form and the address under the change handlers of *)
(* all five fields, from several opening addresses; SpecReveal is the      *)
(* reveal of replies of up to three pages, with the reveals counted.  The  *)
(* changes of query, fromDate and toDate touch nothing a session reads     *)
(* after its submission, and are left to SpecForm.                         *)
(***************************************************************************)
EXTENDS Integers, Sequences, FiniteSets, Bags, TLC

VARIABLES
    isSearching,                    \* useState(false), line 34
    npub,                           \* line 35
    includeNotesFromFollowedUsers,  \* lines 36-37
    query,                          \* line 38
    fromDate,                       \* lines 39-41
    toDate,                         \* line 42
    events,                         \* line 43
    currentDataLength,              \* line 44
    search,                         \* window.location.search, without "?"
    output,                         \* what the page put out last: a toast's title or a console line
    sessions,                       \* the relays made by handleSubmit that are not over
    reveals                         \* history: updateCurrentDataLength calls since the last install

vars == <<isSearching, npub, includeNotesFromFollowedUsers, query, fromDate,
          toDate, events, currentDataLength, search, output, sessions,
          reveals>>

formVars == <<npub, includeNotesFromFollowedUsers, query, fromDate, toDate, search>>

resultVars == <<events, currentDataLength>>

(***************************************************************************)
(* Bounds.                                                                 *)
(***************************************************************************)
MaxSessions == 2       \* sessions in flight at once
MaxResults == 7        \* notes in a reply of the relay, under Spec
MaxLongResults == 12   \* notes in a reply of the relay, under SpecReveal
MaxReveals == 3        \* updateCurrentDataLength calls counted after an install

\* JavaScript's undefined, where a string is expected.  A value that may be
\* null or undefined and is no string otherwise (params.get's result, the
\* kind-3 event, a filter's optional field) is a sequence of no or one value.
Undefined == "undefined"

(***************************************************************************)
(* Sequence helpers.                                                       *)
(***************************************************************************)
Range(s) == {s[i] : i \in 1..Len(s)}

RECURSIVE IndexOf(_, _, _)
\* The least i >= from with s[i] = tok, or 0.
IndexOf(s, tok, from) ==
    IF from > Len(s) THEN 0
    ELSE IF s[from] = tok THEN from
    ELSE IndexOf(s, tok, from + 1)

RECURSIVE SplitOn(_, _)
\* s cut at every tok: a sequence of token sequences.
SplitOn(s, tok) ==
    LET i == IndexOf(s, tok, 1)
    IN  IF i = 0 THEN <<s>>
        ELSE <<SubSeq(s, 1, i - 1)>> \o SplitOn(SubSeq(s, i + 1, Len(s)), tok)

RECURSIVE JoinWith(_, _)
JoinWith(ss, tok) ==
    IF ss = <<>> THEN <<>>
    ELSE IF Len(ss) = 1 THEN Head(ss)
    ELSE Head(ss) \o <<tok>> \o JoinWith(Tail(ss), tok)

(***************************************************************************)
(* URLSearchParams: application/x-www-form-urlencoded.                     *)
(***************************************************************************)
\* Serializing one token: unreserved runs stay, a space becomes "+", the
\* rest is percent-escaped.
EncodeToken(t) ==
    CASE t = " " -> "+"
      [] t = "&" -> "%26"
      [] t = "=" -> "%3D"
      [] t = "+" -> "%2B"
      [] t = "%" -> "%25"
      [] OTHER -> t

\* Parsing one token of a serialized string.
DecodeToken(t) ==
    CASE t = "+" -> " "
      [] t = "%26" -> "&"
      [] t = "%3D" -> "="
      [] t = "%2B" -> "+"
      [] t = "%25" -> "%"
      [] OTHER -> t

EncodeText(s) == [i \in 1..Len(s) |-> EncodeToken(s[i])]

DecodeText(s) == [i \in 1..Len(s) |-> DecodeToken(s[i])]

\* new URLSearchParams(str): the list of (name, value) pairs of str.
ParseParams(str) ==
    LET segs == SelectSeq(SplitOn(str, "&"), LAMBDA seg : seg # <<>>)
        Pair(seg) ==
            LET i == IndexOf(seg, "=", 1)
            IN  IF i = 0 THEN [name |-> DecodeText(seg), value |-> <<>>]
                ELSE [name |-> DecodeText(SubSeq(seg, 1, i - 1)),
                      value |-> DecodeText(SubSeq(seg, i + 1, Len(seg)))]
    IN  [k \in 1..Len(segs) |-> Pair(segs[k])]

\* params.toString()
SerializeParams(params) ==
    JoinWith([k \in 1..Len(params) |->
                 EncodeText(params[k].name) \o <<"=">> \o EncodeText(params[k].value)],
             "&")

ParamsHas(params, key) == \E k \in 1..Len(params) : params[k].name = key

\* params.get(key): <<the first value under key>>, or <<>> for null.
ParamsGet(params, key) ==
    IF ParamsHas(params, key)
    THEN <<params[CHOOSE k \in 1..Len(params) :
                     /\ params[k].name = key
                     /\ \A j \in 1..(k - 1) : params[j].name # key].value>>
    ELSE <<>>

\* params.delete(key): every pair under key goes.
ParamsDelete(params, key) == SelectSeq(params, LAMBDA p : p.name # key)

\* params.set(key, value): the first pair under key takes the value and the
\* other pairs under key go; with no such pair, one is appended.
ParamsSet(params, key, value) ==
    IF ParamsHas(params, key)
    THEN LET first == CHOOSE k \in 1..Len(params) :
                          /\ params[k].name = key
                          /\ \A j \in 1..(k - 1) : params[j].name # key
         IN  SubSeq(params, 1, first - 1)
                \o <<[name |-> key, value |-> value]>>
                \o ParamsDelete(SubSeq(params, first + 1, Len(params)), key)
    ELSE Append(params, [name |-> key, value |-> value])

(***************************************************************************)
(* The inputs the model draws from.                                        *)
(***************************************************************************)
Empty == <<>>
NpubA == <<"npub1a">>       \* encodes the public key "A"
NpubB == <<"npub1b">>       \* encodes the public key "B"
NoteX == <<"note1x">>       \* well formed, but encodes an event id
Garbage == <<"garbage">>    \* not bech32 at all

NpubInputs == {Empty, NpubA, NoteX, Garbage}
QueryInputs == {Empty, <<"nostr", " ", "&", "dev">>}
DateInputs == {Empty, <<"2023-01-05">>}

\* What the relay may answer to the kind-3 request: no event, or an event
\* whose tags are any of these lists; <<"p">> is a tag with no second element.
TagLists == { <<>>,
              << <<"p", "B">>, <<"p", "C">> >>,
              << <<"p">>, <<"p", "B">> >> }

ContactListReplies == {<<>>} \cup {<<[kind |-> 3, tags |-> t]>> : t \in TagLists}

\* What the relay may answer to the kind-1 request of a session whose
\* author is key: n notes, n in 0..MaxResults.
Notes(key, n) == [i \in 1..n |-> [id |-> <<key, i>>, kind |-> 1]]

(***************************************************************************)
(* Lines 46-63: decodeNpub and convertDateToUnixTimestamp.                 *)
(***************************************************************************)
\* nip19.decode (line 48): the type and data of a bech32 entity, or a throw.
Nip19Decode(id) ==
    CASE id = NpubA -> [thrown |-> FALSE, type |-> "npub", data |-> "A"]
      [] id = NpubB -> [thrown |-> FALSE, type |-> "npub", data |-> "B"]
      [] id = NoteX -> [thrown |-> FALSE, type |-> "note", data |-> "X"]
      [] OTHER -> [thrown |-> TRUE, type |-> Undefined, data |-> "Unknown letter"]

\* decodeNpub without its test of the type.
MutDecodeNpubAnyType(id) ==
    LET d == Nip19Decode(id)
    IN  IF ~d.thrown THEN d.data ELSE Undefined

\* decodeNpub's return value: the key of an npub, undefined for every other
\* type and after a throw.
DecodeNpub(id) ==
    LET d == Nip19Decode(id)
    IN  IF ~d.thrown /\ d.type = "npub" THEN d.data ELSE Undefined

\* What is on show after decodeNpub: a toast of the error's message after a
\* throw, else whatever was there before.
DecodeNpubToast(id, before) ==
    LET d == Nip19Decode(id)
    IN  IF d.thrown THEN d.data ELSE before

\* new Date(date).getTime() / 1000
ConvertDateToUnixTimestamp(date) ==
    IF date = <<"2023-01-05">> THEN 1672876800 ELSE "NaN"

(***************************************************************************)
(* Lines 33-44: the state after the first render of a page whose address   *)
(* carries the query string str.                                           *)
(***************************************************************************)
\* v ?? ""
OrEmpty(v) == IF v = <<>> THEN <<>> ELSE v[1]

NpubFromSearch(str) == OrEmpty(ParamsGet(ParseParams(str), <<"npub">>))

IncludeFromSearch(str) == ParamsGet(ParseParams(str), <<"includeFollowed">>) = << <<"1">> >>

QueryFromSearch(str) == OrEmpty(ParamsGet(ParseParams(str), <<"query">>))

FromDateFromSearch(str) == OrEmpty(ParamsGet(ParseParams(str), <<"fromDate">>))

ToDateFromSearch(str) == OrEmpty(ParamsGet(ParseParams(str), <<"toDate">>))

\* A relay.list filter not built yet.
NoFilter == [kinds |-> <<>>, authors |-> <<>>, search |-> <<>>, since |-> <<>>, until |-> <<>>]

\* The session handleSubmit starts: the values its callbacks close over
\* (decodedNpub, includeNotesFromFollowedUsers, query, fromDate, toDate),
\* where its connect callback stands (pc: "Connecting" until the relay is
\* open, "ContactLookup" at the await of relay.get, "Querying" at the await
\* of relay.list), the callback's locals (contactListEvent,
\* followedAuthorPubkeys, the filter), what it has asked the relay
\* (requests), and whether its relay has emitted "error".  sessions is the bag of the sessions that are
\* not over: two sessions in the same state are two copies.
NewSession(decodedNpub, include, q, from, to) ==
    [pc |-> "Connecting", decodedNpub |-> decodedNpub,
     includeNotesFromFollowedUsers |-> include,
     query |-> q, fromDate |-> from, toDate |-> to,
     contactListEvent |-> <<>>, followedAuthorPubkeys |-> <<>>,
     filter |-> NoFilter, requests |-> <<>>, errored |-> FALSE]

\* The query strings a page may be opened with.
InitialSearches ==
    { <<>>,
      <<"npub", "=", "npub1a", "&", "includeFollowed", "=", "1">>,
      <<"includeFollowed", "=", "0", "&", "npub", "=", "garbage", "&", "npub", "=", "npub1b">>,
      <<"ref", "=", "x", "&", "query", "=", "nostr", "+", "%26", "dev", "&", "toDate">> }

InitFrom(str) ==
    /\ search = str
    /\ isSearching = FALSE
    /\ npub = NpubFromSearch(str)
    /\ includeNotesFromFollowedUsers = IncludeFromSearch(str)
    /\ query = QueryFromSearch(str)
    /\ fromDate = FromDateFromSearch(str)
    /\ toDate = ToDateFromSearch(str)
    /\ events = <<>>
    /\ currentDataLength = 0
    /\ output = "none"
    /\ sessions = EmptyBag
    /\ reveals = 0

(***************************************************************************)
(* Lines 139-170 and 185-225: the change handlers.                         *)
(***************************************************************************)
\* makeOnChangeHandler without its else branch: an empty value is set too.
MutOnChangeNoDelete(str, key, value) ==
    SerializeParams(ParamsSet(ParseParams(str), key, value))

\* The query string updateUrl leaves after makeOnChangeHandler(set, key)
\* handled a change to value.
OnChangeSearch(str, key, value) ==
    LET queryParams == ParseParams(str)
    IN  SerializeParams(IF value # <<>>
                        THEN ParamsSet(queryParams, key, value)
                        ELSE ParamsDelete(queryParams, key))

\* The query string updateIncludeFollowedQueryParam(includeFollowed) leaves.
IncludeFollowedSearch(str, includeFollowed) ==
    LET queryParams == ParseParams(str)
    IN  SerializeParams(IF includeFollowed
                        THEN ParamsSet(queryParams, <<"includeFollowed">>, <<"1">>)
                        ELSE ParamsDelete(queryParams, <<"includeFollowed">>))

ChangeNpub ==
    \E v \in NpubInputs :
        /\ v # npub
        /\ search' = OnChangeSearch(search, <<"npub">>, v)
        /\ npub' = v
        /\ UNCHANGED <<includeNotesFromFollowedUsers, query, fromDate, toDate,
                       isSearching, output, sessions, resultVars, reveals>>

ChangeQuery ==
    \E v \in QueryInputs :
        /\ v # query
        /\ search' = OnChangeSearch(search, <<"query">>, v)
        /\ query' = v
        /\ UNCHANGED <<npub, includeNotesFromFollowedUsers, fromDate, toDate,
                       isSearching, output, sessions, resultVars, reveals>>

ChangeFromDate ==
    \E v \in DateInputs :
        /\ v # fromDate
        /\ search' = OnChangeSearch(search, <<"fromDate">>, v)
        /\ fromDate' = v
        /\ UNCHANGED <<npub, includeNotesFromFollowedUsers, query, toDate,
                       isSearching, output, sessions, resultVars, reveals>>

ChangeToDate ==
    \E v \in DateInputs :
        /\ v # toDate
        /\ search' = OnChangeSearch(search, <<"toDate">>, v)
        /\ toDate' = v
        /\ UNCHANGED <<npub, includeNotesFromFollowedUsers, query, fromDate,
                       isSearching, output, sessions, resultVars, reveals>>

\* The checkbox's onChange, lines 192-197.
ToggleIncludeFollowed ==
    /\ search' = IncludeFollowedSearch(search, ~includeNotesFromFollowedUsers)
    /\ includeNotesFromFollowedUsers' = ~includeNotesFromFollowedUsers
    /\ UNCHANGED <<npub, query, fromDate, toDate,
                   isSearching, output, sessions, resultVars, reveals>>

(***************************************************************************)
(* Lines 64-130: handleSubmit and the callbacks it registers.              *)
(***************************************************************************)
\* The page of the incremental reveal: the 5 of lines 118 and 173.
PageSize == 5

Min(a, b) == IF a < b THEN a ELSE b

\* Line 96: contactListEvent?.tags.map(([_, pubkey]) => pubkey) ?? []
FollowedAuthorPubkeys(contactListEvent) ==
    IF contactListEvent = <<>> THEN <<>>
    ELSE LET tags == contactListEvent[1].tags
         IN  [i \in 1..Len(tags) |->
                 IF Len(tags[i]) >= 2 THEN tags[i][2] ELSE Undefined]

\* The filter's authors with the spread alone in the first branch.
MutAuthorsOnlyFollowed(include, followedAuthorPubkeys, decodedNpub) ==
    IF include THEN followedAuthorPubkeys ELSE <<decodedNpub>>

\* Lines 102-104: the filter's authors.
Authors(include, followedAuthorPubkeys, decodedNpub) ==
    IF include THEN followedAuthorPubkeys \o <<decodedNpub>> ELSE <<decodedNpub>>

\* Lines 100-108: the filter of the kind-1 request, from what the callback
\* closed over.
Filter(sess, followedAuthorPubkeys) ==
    [kinds |-> <<1>>,
     authors |-> Authors(sess.includeNotesFromFollowedUsers,
                         followedAuthorPubkeys, sess.decodedNpub),
     search |-> IF sess.query # <<>> /\ Len(sess.query) > 0
                THEN <<sess.query>> ELSE <<>>,
     since |-> IF sess.fromDate # <<>>
               THEN <<ConvertDateToUnixTimestamp(sess.fromDate)>> ELSE <<>>,
     until |-> IF sess.toDate # <<>>
               THEN <<ConvertDateToUnixTimestamp(sess.toDate)>> ELSE <<>>]

\* Line 118 without Math.min, either way.
MutInstalledFixed(len) == PageSize

MutInstalledAll(len) == len

\* Line 118: the reveal cursor a result of len notes is installed with.
InstalledDataLength(len) == Min(PageSize, len)

\* The updater with prev in its else branch: the last, partial page never shows.
MutNextStuck(prev, len) == IF prev + PageSize < len THEN prev + PageSize ELSE prev

\* Lines 172-174: the updater of updateCurrentDataLength.
NextDataLength(prev, len) == IF prev + PageSize < len THEN prev + PageSize ELSE len

\* Line 245: InfiniteScroll's hasMore.
HasMore == currentDataLength < Len(events)

\* sessions with one copy of sess replaced by next.
Replace(sess, next) == (sessions (-) SetToBag({sess})) (+) SetToBag({next})

\* Lines 64-82 and 129; the Submit button is disabled while isSearching
\* (isLoading, line 235), so the form submits only when it is false.
HandleSubmit ==
    /\ ~isSearching
    /\ \/ /\ npub = <<>>
          /\ output' = "npub is required"
          /\ UNCHANGED <<formVars, isSearching, sessions, resultVars, reveals>>
       \/ /\ npub # <<>>
          /\ DecodeNpub(npub) \in {Undefined, ""}
          /\ output' = DecodeNpubToast(npub, output)
          /\ UNCHANGED <<formVars, isSearching, sessions, resultVars, reveals>>
       \/ /\ npub # <<>>
          /\ DecodeNpub(npub) \notin {Undefined, ""}
          /\ BagCardinality(sessions) < MaxSessions
          /\ sessions' = sessions (+) SetToBag({
                 NewSession(DecodeNpub(npub), includeNotesFromFollowedUsers,
                            query, fromDate, toDate)})
          /\ isSearching' = TRUE
          /\ UNCHANGED <<formVars, output, resultVars, reveals>>

\* The connect callback without the await of relay.get: both requests go
\* out at once.
MutConnectNoAwait(sess) ==
    /\ sess.pc = "Connecting"
    /\ \/ /\ sess.includeNotesFromFollowedUsers
          /\ sessions' = Replace(sess, [sess EXCEPT !.pc = "ContactLookup",
                                                    !.requests = <<"get", "list">>])
       \/ /\ ~sess.includeNotesFromFollowedUsers
          /\ sessions' = Replace(sess, [sess EXCEPT !.pc = "Querying",
                                                    !.filter = Filter(sess, <<>>),
                                                    !.requests = <<"list">>])
    /\ output' = "connected to wss://relay.nostr.band"
    /\ UNCHANGED <<formVars, isSearching, resultVars, reveals>>

\* Lines 84-109, up to the first await that waits for the relay: the relay
\* of session sess has connected.
Connect(sess) ==
    /\ sess.pc = "Connecting"
    /\ \/ /\ sess.includeNotesFromFollowedUsers
          /\ sessions' = Replace(sess, [sess EXCEPT !.pc = "ContactLookup",
                                                    !.requests = <<"get">>])
       \/ /\ ~sess.includeNotesFromFollowedUsers
          /\ sessions' = Replace(sess, [sess EXCEPT !.pc = "Querying",
                                                    !.filter = Filter(sess, <<>>),
                                                    !.requests = <<"list">>])
    /\ output' = "connected to wss://relay.nostr.band"
    /\ UNCHANGED <<formVars, isSearching, resultVars, reveals>>

\* Lines 90-109: relay.get has resolved with contactListEvent and the
\* callback goes on to relay.list.
ContactListReturn(sess) ==
    \E contactListEvent \in ContactListReplies :
        /\ sess.pc = "ContactLookup"
        /\ LET followed == FollowedAuthorPubkeys(contactListEvent)
           IN  sessions' = Replace(sess, [sess EXCEPT
                   !.pc = "Querying",
                   !.contactListEvent = contactListEvent,
                   !.followedAuthorPubkeys = followed,
                   !.filter = Filter(sess, followed),
                   !.requests = Append(@, "list")])
        /\ UNCHANGED <<formVars, isSearching, output, resultVars, reveals>>

\* Lines 99-121: relay.list has resolved with n notes; the session is over.
ListReturn(sess, n) ==
    /\ sess.pc = "Querying"
    /\ output' = IF n = 0 THEN "no events found" ELSE output
    /\ currentDataLength' = InstalledDataLength(n)
    /\ events' = Notes(sess.decodedNpub, n)
    /\ isSearching' = FALSE
    /\ sessions' = sessions (-) SetToBag({sess})
    /\ reveals' = 0
    /\ UNCHANGED formVars

\* The error callback clearing the results as well.
MutRelayErrorClears(sess) ==
    /\ ~sess.errored
    /\ isSearching' = FALSE
    /\ output' = "failed to connect to wss://relay.nostr.band"
    /\ \/ /\ sess.pc = "Connecting"
          /\ sessions' = sessions (-) SetToBag({sess})
       \/ /\ sess.pc # "Connecting"
          /\ sessions' = Replace(sess, [sess EXCEPT !.errored = TRUE])
    /\ events' = <<>>
    /\ currentDataLength' = 0
    /\ UNCHANGED <<formVars, reveals>>

\* Lines 124-127: the relay of session sess emits "error", which it does at
\* most once: while it is opening (the connection failed and the session is
\* over), or once it is open (the callback awaiting the relay goes on).
RelayError(sess) ==
    /\ ~sess.errored
    /\ isSearching' = FALSE
    /\ output' = "failed to connect to wss://relay.nostr.band"
    /\ \/ /\ sess.pc = "Connecting"
          /\ sessions' = sessions (-) SetToBag({sess})
       \/ /\ sess.pc # "Connecting"
          /\ sessions' = Replace(sess, [sess EXCEPT !.errored = TRUE])
    /\ UNCHANGED <<formVars, resultVars, reveals>>

\* Lines 171-175: InfiniteScroll's next.
UpdateCurrentDataLength ==
    /\ currentDataLength' = NextDataLength(currentDataLength, Len(events))
    /\ UNCHANGED <<formVars, isSearching, output, sessions, events>>

\* The steps of the form: every field's change handler.
FormNext ==
    \/ ChangeNpub
    \/ ChangeQuery
    \/ ChangeFromDate
    \/ ChangeToDate
    \/ ToggleIncludeFollowed

\* The steps of a search: submissions, the relay's callbacks, the reveal,
\* and the changes of the two fields a session closes over and decides by
\* (the author and the checkbox), which may come while a session runs.
Next ==
    \/ ChangeNpub
    \/ ToggleIncludeFollowed
    \/ HandleSubmit
    \/ \E sess \in BagToSet(sessions) : Connect(sess)
    \/ \E sess \in BagToSet(sessions) : ContactListReturn(sess)
    \/ \E sess \in BagToSet(sessions) : \E n \in 0..MaxResults : ListReturn(sess, n)
    \/ \E sess \in BagToSet(sessions) : RelayError(sess)
    \/ UpdateCurrentDataLength /\ UNCHANGED reveals

\* The steps of the reveal: searches for the author the page was opened
\* with, replies of up to three pages, and the reveals since the last
\* install counted.
RevealNext ==
    \/ HandleSubmit
    \/ \E sess \in BagToSet(sessions) : Connect(sess)
    \/ \E sess \in BagToSet(sessions) : \E n \in 0..MaxLongResults : ListReturn(sess, n)
    \/ \E sess \in BagToSet(sessions) : RelayError(sess)
    \/ /\ reveals < MaxReveals
       /\ UpdateCurrentDataLength
       /\ reveals' = reveals + 1

\* The page opened with a search to run: a query and a from-date.
Init ==
    InitFrom(<<"query", "=", "nostr", "+", "%26", "dev", "&",
               "fromDate", "=", "2023-01-05">>)

\* The page opened with any of the initial query strings.
InitAny == \E str \in InitialSearches : InitFrom(str)

\* The page opened with an author's link.
InitAuthor == InitFrom(<<"npub", "=", "npub1a">>)

\* The searches of a page.
Spec == Init /\ [][Next]_vars

\* The form and the address of a page, under every field's changes.
SpecForm == InitAny /\ [][FormNext]_vars

\* The reveal of the results of a page.
SpecReveal == InitAuthor /\ [][RevealNext]_vars

(***************************************************************************)
(* The claims.                                                             *)
(***************************************************************************)
\* One copy of sess has left the sessions and none has come: sess is over.
SessionOver(sess) ==
    /\ CopiesIn(sess, sessions') = CopiesIn(sess, sessions) - 1
    /\ BagCardinality(sessions') = BagCardinality(sessions) - 1

\* The keys a kind-3 event's well-formed tags name.
ContactMembers(contactListEvent) ==
    IF contactListEvent = <<>> THEN {}
    ELSE {t[2] : t \in {u \in Range(contactListEvent[1].tags) : Len(u) >= 2}}

\* C1: in every reachable state the reveal cursor is at least 0 and at most
\* the number of results held.
Thm_C1 == currentDataLength >= 0 /\ currentDataLength <= Len(events)

\* A result of more than one page whose last, partial page has been revealed.
Wit_C1 ==
    /\ Len(events) = MaxResults
    /\ currentDataLength = Len(events)
    /\ output # "no events found"

\* C2: the authors of every note query contain the decoded author; with
\* the checkbox set at the submission they contain every key of the
\* fetched contact list, and with it unset they are the decoded author alone.
Thm_C2 ==
    \A sess \in BagToSet(sessions) :
        sess.pc = "Querying" =>
            LET authorKeys == Range(sess.filter.authors)
            IN  /\ sess.decodedNpub \in authorKeys
                /\ sess.includeNotesFromFollowedUsers =>
                       ContactMembers(sess.contactListEvent) \subseteq authorKeys
                /\ ~sess.includeNotesFromFollowedUsers =>
                       authorKeys = {sess.decodedNpub}

\* A note query for A and the two keys A's contact list names.
Wit_C2 ==
    \E sess \in BagToSet(sessions) :
        /\ sess.pc = "Querying"
        /\ sess.includeNotesFromFollowedUsers
        /\ Range(sess.filter.authors) = {"A", "B", "C"}

\* An identifier that is no public key: nip19.decode throws on it, or
\* decodes it to another type.
NotAPublicKey(id) == Nip19Decode(id).thrown \/ Nip19Decode(id).type # "npub"

\* C3: a submission with an empty identifier, or with one that is no public
\* key, starts no session (no relay, no request, no filter) and leaves
\* isSearching, events and currentDataLength as they are; so every session
\* there is holds a decoded public key.
Thm_C3 ==
    /\ [](\A sess \in BagToSet(sessions) :
              \E id \in NpubInputs :
                  ~NotAPublicKey(id) /\ sess.decodedNpub = Nip19Decode(id).data)
    /\ [][(HandleSubmit /\ (npub = <<>> \/ NotAPublicKey(npub)))
              => UNCHANGED <<isSearching, events, currentDataLength, sessions>>]_vars

\* A malformed identifier was refused while results were on show.
Wit_C3 ==
    /\ npub = Garbage
    /\ output = "Unknown letter"
    /\ events # <<>>
    /\ currentDataLength = Len(events)
    /\ sessions = EmptyBag
    /\ ~isSearching

\* C4: at most one session is in flight at any time (isSearching, true
\* while a session runs, keeps a second one from starting).
Cex_C4 == BagCardinality(sessions) <= 1

Thm_C6 ==
    [][\A sess \in BagToSet(sessions) :
           (sess.pc = "Querying" /\ SessionOver(sess))
           => /\ \E n \in 0..MaxResults : events' = Notes(sess.decodedNpub, n)
              /\ currentDataLength' = (IF Len(events') < 5 THEN Len(events') ELSE 5)
              /\ events' = <<>> => currentDataLength' = 0
              /\ isSearching' = FALSE]_vars

\* A reply of more than a page has been installed and nothing revealed yet.
Wit_C6 ==
    /\ Len(events) = MaxResults
    /\ currentDataLength = 5
    /\ ~isSearching
    /\ sessions = EmptyBag

\* The least k with 5 * k >= n.
CeilDiv5(n) == (n + 4) \div 5

\* C7: after an install, every updateCurrentDataLength call leaves the
\* cursor at the lesser of cursor + 5 and the length, never lower than it
\* was; after k calls the cursor is the lesser of 5 * (k + 1) and the
\* length, so it is the length after ceil(length / 5) calls; and hasMore is
\* false exactly when the cursor is the length.
Thm_C7 ==
    /\ [](/\ currentDataLength =
                 (IF 5 * (reveals + 1) < Len(events) THEN 5 * (reveals + 1) ELSE Len(events))
          /\ reveals >= CeilDiv5(Len(events)) => currentDataLength = Len(events)
          /\ ~HasMore <=> currentDataLength = Len(events))
    /\ [][reveals' = reveals + 1
             => /\ currentDataLength' >= currentDataLength
                /\ currentDataLength' =
                       (IF currentDataLength + 5 < Len(events)
                        THEN currentDataLength + 5 ELSE Len(events))]_vars

\* Twelve notes, two calls: 5, 10, 12.
Wit_C7 ==
    /\ Len(events) = 12
    /\ reveals = 2
    /\ currentDataLength = 12
    /\ ~HasMore

\* The pairs of the query string str under key.
Entries(str, key) == SelectSeq(ParseParams(str), LAMBDA p : p.name = key)

KeyKept(key) == Entries(search', key) = Entries(search, key)

KeySet(key, value) == Entries(search', key) = <<[name |-> key, value |-> value]>>

KeyDeleted(key) == Entries(search', key) = <<>>

\* What a step that takes a text field from old to new does to its key.
TextFieldStep(key, old, new) ==
    IF new = old THEN KeyKept(key)
    ELSE IF new # <<>> THEN KeySet(key, new)
    ELSE KeyDeleted(key)

\* C8: a change of a field sets that field's key to the new value, or
\* deletes the key when the value is empty or false, and keeps the pairs
\* under every other key; and in every state the form is what a page
\* opened with the query string would start with.
Thm_C8 ==
    /\ [](/\ npub = NpubFromSearch(search)
          /\ includeNotesFromFollowedUsers = IncludeFromSearch(search)
          /\ query = QueryFromSearch(search)
          /\ fromDate = FromDateFromSearch(search)
          /\ toDate = ToDateFromSearch(search))
    /\ [][/\ TextFieldStep(<<"npub">>, npub, npub')
          /\ TextFieldStep(<<"query">>, query, query')
          /\ TextFieldStep(<<"fromDate">>, fromDate, fromDate')
          /\ TextFieldStep(<<"toDate">>, toDate, toDate')
          /\ IF includeNotesFromFollowedUsers' = includeNotesFromFollowedUsers
             THEN KeyKept(<<"includeFollowed">>)
             ELSE IF includeNotesFromFollowedUsers'
             THEN KeySet(<<"includeFollowed">>, <<"1">>)
             ELSE KeyDeleted(<<"includeFollowed">>)
          /\ KeyKept(<<"ref">>)]_vars

\* A query with a space and an ampersand typed, and the author emptied,
\* on a page opened with an author and the checkbox set.
Wit_C8 ==
    /\ search = <<"includeFollowed", "=", "1", "&",
                  "query", "=", "nostr", "+", "%26", "dev">>
    /\ query = <<"nostr", " ", "&", "dev">>
    /\ npub = <<>>
    /\ includeNotesFromFollowedUsers

\* C9: a session submitted with the checkbox unset asks the relay once, for
\* the notes; one submitted with it set asks twice, for the contact list
\* and then for the notes, and not for the notes while the contact list is
\* awaited.
Thm_C9 ==
    \A sess \in BagToSet(sessions) :
        /\ sess.pc = "Connecting" => sess.requests = <<>>
        /\ sess.pc = "ContactLookup" =>
               sess.includeNotesFromFollowedUsers /\ sess.requests = <<"get">>
        /\ sess.pc = "Querying" =>
               sess.requests = (IF sess.includeNotesFromFollowedUsers
                                THEN <<"get", "list">> ELSE <<"list">>)

\* A session at its note query after its contact list came, with no other
\* session about.
Wit_C9 ==
    /\ BagCardinality(sessions) = 1
    /\ \E sess \in BagToSet(sessions) :
           /\ sess.pc = "Querying"
           /\ sess.includeNotesFromFollowedUsers
           /\ sess.contactListEvent # <<>>
           /\ sess.requests = <<"get", "list">>

\* C10: the authors of a note query made after a contact-list fetch are
\* the decoded author and the keys of the well-formed tags, and nothing
\* else: a tag with no second element adds no author.
Cex_C10 ==
    \A sess \in BagToSet(sessions) :
        (sess.pc = "Querying" /\ sess.includeNotesFromFollowedUsers) =>
            Range(sess.filter.authors) =
                {sess.decodedNpub} \cup ContactMembers(sess.contactListEvent)

====
